---- MODULE Spec2Model ----
(***************************************************************************)
(* Pareto / WBS analysis engine of the construction-pareto-analyzer.       *)
(*                                                                         *)
(* The persistent state is the two SQL tables `projects` and `boq_items`.  *)
(* processSpreadsheet is modelled await by await: every database or bucket *)
(* round trip of the handler is one atomic step, and the synchronous code  *)
(* that follows it up to the next await belongs to the same step.          *)
(*                                                                         *)
(* Text is modelled as sequences of one-character strings, so that         *)
(* split('.'), join('.') and trim() are computed, not assumed.  Costs,     *)
(* quantities and rates are integers; a percentage is the exact fraction   *)
(* <<numerator, denominator>> in lowest terms.                             *)
(***************************************************************************)
EXTENDS Integers, Sequences, FiniteSets, TLC

VARIABLES
    status,     \* projects.status per project id; "absent" = no row in projects
    boq,        \* table boq_items: per project_id, its rows in id (insertion) order
    nextId,     \* per project_id, the id the next row inserted for it gets
    proc,       \* local state of each in-flight processSpreadsheet invocation
    last,       \* per project: the latest process call that got as far as its DELETE
    ended,      \* how the most recently ended process call ended, and for which project
    calls,      \* number of handler invocations started so far
    probe,      \* one spreadsheet row and what the row loop made of it
    insights,   \* table ai_insights: per project_id, its rows in insertion order
    gen,        \* local state of the in-flight generateInsights invocation
    ve,         \* local state of one veSuggestions invocation
    page        \* component state of the analysis page (ProjectAnalysis)

vars ==
    <<status, boq, nextId, proc, last, ended, calls, probe, insights, gen, ve,
      page>>

-----------------------------------------------------------------------------
(* Bounds of the model *)

\* processSpreadsheet invocations started in one behaviour
MaxCalls == 2

ProjectIds == {1, 2}
Slots == {1, 2}

-----------------------------------------------------------------------------
(* Optional values: null is the empty sequence, a present value a singleton *)

Null == <<>>
Some(x) == <<x>>

-----------------------------------------------------------------------------
(* Strings as character sequences *)

Str1 == <<"1">>
Str2 == <<"2">>
Str7 == <<"7">>
Str1_1 == <<"1", ".", "1">>
Str1_2 == <<"1", ".", "2">>
Str2_1 == <<"2", ".", "1">>
Str1_2_3 == <<"1", ".", "2", ".", "3">>
Str1_1_1 == <<"1", ".", "1", ".", "1">>
StrA_1 == <<"A", ".", "1">>
Str1Dot == <<"1", ".">>
StrPadded1 == <<" ", "1", " ">>
StrBlank == <<" ">>
StrEmpty == <<>>

\* String.prototype.trim
RECURSIVE TrimLeft(_)
TrimLeft(s) ==
    IF s # <<>> /\ Head(s) = " " THEN TrimLeft(Tail(s)) ELSE s

RECURSIVE TrimRight(_)
TrimRight(s) ==
    IF s # <<>> /\ s[Len(s)] = " " THEN TrimRight(SubSeq(s, 1, Len(s) - 1)) ELSE s

Trim(s) == TrimRight(TrimLeft(s))

\* String.prototype.split('.'): the pieces between the dots, empty pieces kept
RECURSIVE Split(_)
Split(s) ==
    IF \A i \in 1..Len(s) : s[i] # "."
    THEN <<s>>
    ELSE LET i == CHOOSE i \in 1..Len(s) :
                      s[i] = "." /\ \A j \in 1..(i - 1) : s[j] # "."
         IN  <<SubSeq(s, 1, i - 1)>> \o Split(SubSeq(s, i + 1, Len(s)))

\* Array.prototype.join('.')
RECURSIVE Join(_)
Join(parts) ==
    IF parts = <<>> THEN <<>>
    ELSE IF Len(parts) = 1 THEN parts[1]
    ELSE parts[1] \o <<".">> \o Join(Tail(parts))

\* variant: the level taken to be the number of dots
determineWBSLevelByDots(itemCode) ==
    IF itemCode = <<>> THEN 1 ELSE Len(Split(itemCode)) - 1

\* const parts = itemCode.split('.'); return parts.length
determineWBSLevelFromCode(itemCode) ==
    IF itemCode = <<>> THEN 1 ELSE Len(Split(itemCode))

getParentItemCode(itemCode) ==
    IF itemCode = <<>> THEN Null
    ELSE LET parts == Split(itemCode)
         IN  IF Len(parts) <= 1 THEN Null
             ELSE Some(Join(SubSeq(parts, 1, Len(parts) - 1)))

-----------------------------------------------------------------------------
(* Numbers *)

RECURSIVE GCD(_, _)
GCD(a, b) == IF b = 0 THEN a ELSE GCD(b, a % b)

\* (cumulativeCost / total) * 100 for total > 0, as a fraction in lowest terms
Percentage(cumulativeCost, total) ==
    LET n == cumulativeCost * 100
        g == GCD(n, total)
    IN  <<n \div g, total \div g>>

\* a <= b on fractions with positive denominators
PctLeq(a, b) == a[1] * b[2] <= b[1] * a[2]

PctOf(n) == <<n, 1>>

ParetoThreshold == 80

-----------------------------------------------------------------------------
(* Spreadsheet rows and the row parser *)

\* One decoded spreadsheet row, after the column aliases are resolved: the
\* value of each `a || b || c || d` chain.  An absent or falsy numeric cell
\* is 0 (the chain ends in '0'), an absent code is the empty string.
Row(code, desc, qty, rate, total) ==
    [code |-> code, desc |-> desc, qty |-> qty, rate |-> rate, total |-> total]

\* const totalCost = parseFloat(total chain) || (quantity * unitRate)
RowTotalCost(row) ==
    IF row.total # 0 THEN row.total ELSE row.qty * row.rate

\* const itemCode = itemCodeRaw ? String(itemCodeRaw).trim() : ''
RowItemCode(row) ==
    IF row.code # <<>> THEN Trim(row.code) ELSE <<>>

\* variant: the description test left out of the condition
RowAcceptedAnyDescription(row) ==
    /\ RowItemCode(row) # <<>>
    /\ RowTotalCost(row) > 0

\* if (itemCode && description && totalCost > 0)
RowAccepted(row) ==
    /\ RowItemCode(row) # <<>>
    /\ row.desc # ""
    /\ RowTotalCost(row) > 0

\* the object pushed on `items` for an accepted row
RowItem(row) ==
    [itemCode       |-> RowItemCode(row),
     description    |-> row.desc,
     quantity       |-> row.qty,
     unitRate       |-> row.rate,
     totalCost      |-> RowTotalCost(row),
     wbsLevel       |-> determineWBSLevelFromCode(RowItemCode(row)),
     parentItemCode |-> getParentItemCode(RowItemCode(row))]

\* for (const row of data) { ... items.push(...) }
RECURSIVE ParseRows(_)
ParseRows(data) ==
    IF data = <<>> THEN <<>>
    ELSE LET rest == ParseRows(SubSeq(data, 1, Len(data) - 1))
             row  == data[Len(data)]
         IN  IF RowAccepted(row) THEN Append(rest, RowItem(row)) ELSE rest

\* variant: the comparator the other way round, a.totalCost - b.totalCost
InsertByTotalCostAsc(sorted, x) ==
    LET n == Cardinality({i \in 1..Len(sorted) : sorted[i].totalCost <= x.totalCost})
    IN  SubSeq(sorted, 1, n) \o <<x>> \o SubSeq(sorted, n + 1, Len(sorted))

\* Array.prototype.sort is stable: an element goes behind every element that
\* does not compare after it.  Comparator: b.totalCost - a.totalCost.
InsertByTotalCostDesc(sorted, x) ==
    LET n == Cardinality({i \in 1..Len(sorted) : sorted[i].totalCost >= x.totalCost})
    IN  SubSeq(sorted, 1, n) \o <<x>> \o SubSeq(sorted, n + 1, Len(sorted))

\* items.sort((a, b) => b.totalCost - a.totalCost)
RECURSIVE SortByTotalCostDesc(_)
SortByTotalCostDesc(items) ==
    IF items = <<>> THEN <<>>
    ELSE InsertByTotalCostDesc(
             SortByTotalCostDesc(SubSeq(items, 1, Len(items) - 1)),
             items[Len(items)])

\* items.reduce((sum, item) => sum + item.totalCost, 0)
RECURSIVE SumTotalCost(_)
SumTotalCost(items) ==
    IF items = <<>> THEN 0
    ELSE SumTotalCost(SubSeq(items, 1, Len(items) - 1)) + items[Len(items)].totalCost

-----------------------------------------------------------------------------
(* The spreadsheets a download can deliver *)

\* a sheet with a header line only: sheet_to_json yields no row
FileEmpty == <<>>

\* rows, but none survives: no description, a blank code, no positive cost
FileAllRejected ==
    <<Row(Str1, "", 1, 5, 0),
      Row(StrBlank, "Steel", 1, 5, 0),
      Row(Str2, "Formwork", 0, 7, 0)>>

\* the two-row scenario of the specification, totalCost derived
FileScenario ==
    <<Row(Str1, "Sitework", 1, 1000, 0),
      Row(Str2, "Concrete", 1, 9000, 0)>>

\* accepted and rejected rows mixed: two accepted rows of equal cost, the
\* first of them at a cumulative share of exactly 80 %, two WBS levels; a
\* padded code, a missing code, a supplied negative total
FileMixed ==
    <<Row(StrPadded1, "Earthworks", 1, 3, 0),
      Row(StrEmpty, "Paint", 1, 4, 0),
      Row(Str1_1, "Excavation", 1, 1, 0),
      Row(Str2_1, "Tiles", 2, 3, 0 - 5),
      Row(Str2, "Roofing", 0, 0, 1)>>

Files == {FileEmpty, FileAllRejected, FileScenario, FileMixed}

-----------------------------------------------------------------------------
(* The tables *)

\* Every statement on boq_items carries WHERE project_id = ..., so the rows of
\* different projects are never compared with one another.  The table is kept
\* as one sequence of rows per project_id, and the BIGSERIAL id, which only
\* ever orders and tells apart the rows of one project, is numbered per project.

\* rows of boq_items WHERE project_id = p, in id order
ItemsOf(table, p) == table[p]

\* variant: the DELETE without its WHERE clause
DeleteItemsAll(table, p) == [q \in DOMAIN table |-> <<>>]

\* variant: the DELETE left out
DeleteItemsNone(table, p) == table

\* DELETE FROM boq_items WHERE project_id = p
DeleteItems(table, p) == [table EXCEPT ![p] = <<>>]

\* INSERT INTO boq_items (project_id, ...) VALUES (...)
InsertItem(table, row) == [table EXCEPT ![row.project_id] = Append(@, row)]

\* variant: the threshold itself excluded
IsParetoCriticalStrict(cumulativePercentage) ==
    ~PctLeq(PctOf(ParetoThreshold), cumulativePercentage)

\* const isParetoCritical = cumulativePercentage <= 80
IsParetoCritical(cumulativePercentage) ==
    PctLeq(cumulativePercentage, PctOf(ParetoThreshold))

\* the row written by INSERT INTO boq_items (...) VALUES (...)
InsertedRow(id, p, item, cumulativeCost, cumulativePercentage) ==
    [id                   |-> id,
     project_id           |-> p,
     itemCode             |-> item.itemCode,
     description          |-> item.description,
     quantity             |-> item.quantity,
     unitRate             |-> item.unitRate,
     totalCost            |-> item.totalCost,
     cumulativeCost       |-> cumulativeCost,
     cumulativePercentage |-> cumulativePercentage,
     isParetoCritical     |-> IsParetoCritical(cumulativePercentage),
     wbsLevel             |-> item.wbsLevel,
     parentItemNumber     |-> item.parentItemCode]

\* items[i].cumulativeCost = ...; items[i].cumulativePercentage = ...;
\* items[i].isParetoCritical = ...
Ranked(item, row) ==
    [itemCode             |-> item.itemCode,
     description          |-> item.description,
     quantity             |-> item.quantity,
     unitRate             |-> item.unitRate,
     totalCost            |-> item.totalCost,
     wbsLevel             |-> item.wbsLevel,
     parentItemCode       |-> item.parentItemCode,
     cumulativeCost       |-> row.cumulativeCost,
     cumulativePercentage |-> row.cumulativePercentage,
     isParetoCritical     |-> row.isParetoCritical]

RangeOf(seq) == {seq[i] : i \in 1..Len(seq)}

\* SELECT ... ORDER BY total_cost DESC: SQL leaves the order of rows with equal
\* total_cost open, so every order of a group of equals is a possible result
RECURSIVE OrdersByTotalCostDesc(_)
OrdersByTotalCostDesc(rows) ==
    IF rows = {} THEN {<<>>}
    ELSE LET top == {r \in rows : \A q \in rows : q.totalCost <= r.totalCost}
         IN  UNION {{<<r>> \o rest : rest \in OrdersByTotalCostDesc(rows \ {r})}
                    : r \in top}

-----------------------------------------------------------------------------------------------------------------------------------------------------
(* processSpreadsheet *)

IdleProc ==
    [pc                  |-> "idle",
     projectId           |-> 0,
     data                |-> <<>>,
     items               |-> <<>>,
     i                   |-> 0,
     totalProjectCost    |-> 0,
     cumulativeCost      |-> 0,
     paretoCriticalItems |-> 0,
     ovl                 |-> FALSE]

NoResponse ==
    [totalItems |-> 0, totalProjectCost |-> 0, paretoCriticalItems |-> 0,
     items |-> <<>>]

NoCall == [outcome |-> "none", ovl |-> FALSE, data |-> <<>>, response |-> NoResponse]

\* what is remembered of a finished call: how it ended, the rows it read,
\* whether another call for the same project was in flight during it
CallRecord(outcome, rec, response) ==
    [outcome |-> outcome, ovl |-> rec.ovl, data |-> rec.data,
     response |-> response]

Active(k) == proc[k].pc # "idle"

\* variant: the DELETE issued ahead of the checks that throw
RejectAfterDelete(k, p, outcome) ==
    /\ ended' = [outcome |-> outcome, projectId |-> p]
    /\ boq' = DeleteItems(boq, p)
    /\ UNCHANGED <<status, nextId, proc, last>>

\* the call in slot k throws before it has issued any statement
Reject(k, p, outcome) ==
    /\ ended' = [outcome |-> outcome, projectId |-> p]
    /\ UNCHANGED <<status, boq, nextId, proc, last>>

\* the call in slot k ends after its DELETE: locals gone, outcome remembered
Finish(k, outcome, response) ==
    /\ proc' = [proc EXCEPT ![k] = IdleProc]
    /\ last' = [last EXCEPT ![proc[k].projectId] =
                    CallRecord(outcome, proc[k], response)]
    /\ ended' = [outcome |-> outcome, projectId |-> proc[k].projectId]

\* POST /upload: a project row with a fresh id and status 'uploaded'.
\* Ids are handed out in order.
uploadFile(p) ==
    /\ status[p] = "absent"
    /\ \A q \in ProjectIds : q < p => status[q] # "absent"
    /\ status' = [status EXCEPT ![p] = "uploaded"]
    /\ UNCHANGED <<boq, nextId, proc, last, ended, calls, probe, insights, gen, ve, page>>

\* The handler up to its first statement that writes:
\*   SELECT * FROM projects WHERE id = projectId; if (!project) throw notFound
\*   filesBucket.download; XLSX.read; sheet_to_json
\*   if (data.length === 0) throw invalidArgument
\* The download reads nothing of the tables, so it is taken in the same step
\* as the lookup.  A new call takes the lowest free slot.
ProcStart(k, p) ==
    /\ ~Active(k)
    /\ \A j \in Slots : j < k => Active(j)
    /\ calls < MaxCalls
    /\ calls' = calls + 1
    /\ IF status[p] = "absent"
       THEN Reject(k, p, "NotFound")
       ELSE \/ Reject(k, p, "Internal")
            \/ \E data \in Files :
                 IF Len(data) = 0
                 THEN Reject(k, p, "InvalidArgumentNoData")
                 ELSE /\ proc' = [j \in Slots |->
                            IF j = k
                            THEN [IdleProc EXCEPT
                                    !.pc = "delete", !.projectId = p, !.data = data,
                                    !.ovl = \E o \in Slots \ {k} :
                                               Active(o) /\ proc[o].projectId = p]
                            ELSE IF Active(j) /\ proc[j].projectId = p
                                 THEN [proc[j] EXCEPT !.ovl = TRUE]
                                 ELSE proc[j]]
                      /\ UNCHANGED <<status, boq, nextId, last, ended>>
    /\ UNCHANGED <<probe, insights, gen, ve, page>>

\* DELETE FROM boq_items; the row loop; if (items.length === 0) throw;
\* items.sort; totalProjectCost; the loop variables
ProcDelete(k) ==
    /\ proc[k].pc = "delete"
    /\ boq' = DeleteItems(boq, proc[k].projectId)
    /\ LET items == ParseRows(proc[k].data)
           sorted == SortByTotalCostDesc(items)
       IN  IF Len(items) = 0
           THEN Finish(k, "InvalidArgumentNoItems", NoResponse)
           ELSE /\ proc' = [proc EXCEPT ![k] =
                              [@ EXCEPT !.pc = "insert",
                                        !.items = sorted,
                                        !.i = 1,
                                        !.totalProjectCost = SumTotalCost(sorted),
                                        !.cumulativeCost = 0,
                                        !.paretoCriticalItems = 0]]
                /\ UNCHANGED <<last, ended>>
    /\ UNCHANGED <<status, nextId, calls, probe, insights, gen, ve, page>>

\* variant: cumulativeCost assigned instead of accumulated
CumulativeStepNoCarry(cumulativeBefore, item, totalProjectCost) ==
    [cumulativeCost       |-> item.totalCost,
     cumulativePercentage |-> Percentage(item.totalCost, totalProjectCost)]

\* cumulativeCost += items[i].totalCost;
\* cumulativePercentage = (cumulativeCost / totalProjectCost) * 100
CumulativeStep(cumulativeBefore, item, totalProjectCost) ==
    LET cumulativeCost == cumulativeBefore + item.totalCost
    IN  [cumulativeCost       |-> cumulativeCost,
         cumulativePercentage |-> Percentage(cumulativeCost, totalProjectCost)]

\* one pass of the for loop: cumulativeCost, cumulativePercentage,
\* isParetoCritical, the counter, INSERT INTO boq_items.
\* project_id REFERENCES projects(id): without the project row the statement
\* fails (the id drawn from the sequence is spent) and the handler ends with
\* the error
ProcInsert(k) ==
    /\ proc[k].pc = "insert"
    /\ LET rec == proc[k]
           item == rec.items[rec.i]
           step == CumulativeStep(rec.cumulativeCost, item, rec.totalProjectCost)
           row == InsertedRow(nextId[rec.projectId], rec.projectId, item,
                              step.cumulativeCost, step.cumulativePercentage)
       IN  /\ nextId' = [nextId EXCEPT ![rec.projectId] = @ + 1]
           /\ IF status[rec.projectId] = "absent"
              THEN /\ Finish(k, "Internal", NoResponse)
                   /\ UNCHANGED boq
              ELSE /\ boq' = InsertItem(boq, row)
                   /\ proc' = [proc EXCEPT ![k] =
                                 [@ EXCEPT !.cumulativeCost = step.cumulativeCost,
                                           !.items[rec.i] = Ranked(item, row),
                                           !.paretoCriticalItems =
                                               IF row.isParetoCritical THEN @ + 1 ELSE @,
                                           !.i = @ + 1,
                                           !.pc = IF rec.i = Len(rec.items)
                                                  THEN "update" ELSE "insert"]]
                   /\ UNCHANGED <<last, ended>>
    /\ UNCHANGED <<status, calls, probe, insights, gen, ve, page>>

\* variant: the UPDATE matches no row
ProcUpdateNoRow(k) ==
    /\ proc[k].pc = "update"
    /\ proc' = [proc EXCEPT ![k] = [@ EXCEPT !.pc = "select"]]
    /\ UNCHANGED <<status, boq, nextId, last, ended, calls, probe, insights, gen, ve, page>>

\* UPDATE projects SET status = 'processed' WHERE id = projectId
ProcUpdate(k) ==
    /\ proc[k].pc = "update"
    /\ status' = [status EXCEPT ![proc[k].projectId] =
                      IF @ = "absent" THEN @ ELSE "processed"]
    /\ proc' = [proc EXCEPT ![k] = [@ EXCEPT !.pc = "select"]]
    /\ UNCHANGED <<boq, nextId, last, ended, calls, probe, insights, gen, ve, page>>

\* SELECT ... FROM boq_items WHERE project_id = projectId ORDER BY total_cost
\* DESC; return { totalItems, totalProjectCost, paretoCriticalItems, items }
ProcSelect(k) ==
    /\ proc[k].pc = "select"
    /\ \E processedItems \in
            OrdersByTotalCostDesc(RangeOf(ItemsOf(boq, proc[k].projectId))) :
         Finish(k, "ok",
                [totalItems          |-> Len(proc[k].items),
                 totalProjectCost    |-> proc[k].totalProjectCost,
                 paretoCriticalItems |-> proc[k].paretoCriticalItems,
                 items               |-> processedItems])
    /\ UNCHANGED <<status, boq, nextId, calls, probe, insights, gen, ve, page>>

-----------------------------------------------------------------------------
(* getWBSData *)

Digits == {"0", "1", "2", "3", "4", "5", "6", "7", "8", "9"}

\* item_code ~ '^[0-9]+$'
AllDigits(s) == s # <<>> /\ \A i \in 1..Len(s) : s[i] \in Digits

\* item_code ~ '^[0-9]+\.'
DigitsThenDot(s) ==
    \E n \in 1..(Len(s) - 1) :
        /\ \A i \in 1..n : s[i] \in Digits
        /\ s[n + 1] = "."

\* the CASE expression the level 1 query groups by; SPLIT_PART(item_code, '.', 1)
Level1Key(itemCode) ==
    IF AllDigits(itemCode) THEN itemCode
    ELSE IF DigitsThenDot(itemCode) THEN Split(itemCode)[1]
    ELSE itemCode

\* LENGTH(item_code) - LENGTH(REPLACE(item_code, '.', ''))
DotCount(s) == Cardinality({i \in 1..Len(s) : s[i] = "."})

\* item_code LIKE parentItemCode + '.%' (for a parent code free of % and _)
LikeChildOf(itemCode, parent) ==
    LET prefix == parent \o <<".">>
    IN  /\ Len(itemCode) >= Len(prefix)
        /\ SubSeq(itemCode, 1, Len(prefix)) = prefix

\* !req.parentItemCode
NoParentGiven(parentItemCode) ==
    parentItemCode = Null \/ parentItemCode = Some(<<>>)

\* the WHERE clause of the query the requested level runs
WBSSelected(table, p, level, parentItemCode) ==
    LET rows == RangeOf(ItemsOf(table, p))
        parent == parentItemCode[1]
    IN  IF level = 1
        THEN {r \in rows : r.itemCode # <<>>}
        ELSE {r \in rows :
                 /\ LikeChildOf(r.itemCode, parent)
                 /\ DotCount(r.itemCode) = (IF level = 2 THEN 1 ELSE 2)
                 /\ r.itemCode # parent}

\* the GROUP BY key
WBSKey(level, r) == IF level = 1 THEN Level1Key(r.itemCode) ELSE r.itemCode

RECURSIVE SumFn(_, _)
SumFn(S, f) ==
    IF S = {} THEN 0
    ELSE LET x == CHOOSE x \in S : TRUE
         IN  f[x] + SumFn(S \ {x}, f)

\* one output row of the aggregate query: MIN(id), STRING_AGG(DISTINCT
\* description) as the set of descriptions, SUM(total_cost), COUNT(*),
\* SUM(quantity), AVG(unit_rate) as <<sum, count>>
WBSGroup(key, members) ==
    [id          |-> CHOOSE i \in {r.id : r \in members} :
                        \A r \in members : i <= r.id,
     itemCode    |-> key,
     description |-> {r.description : r \in members},
     totalCost   |-> SumFn(members, [r \in members |-> r.totalCost]),
     itemCount   |-> Cardinality(members),
     quantity    |-> SumFn(members, [r \in members |-> r.quantity]),
     unitRate    |-> <<SumFn(members, [r \in members |-> r.unitRate]),
                       Cardinality(members)>>]

\* the aggregate query, then
\* aggregatedItems.filter(item => item.itemCode && item.totalCost > 0)
WBSGroups(table, p, level, parentItemCode) ==
    LET selected == WBSSelected(table, p, level, parentItemCode)
        keys == {WBSKey(level, r) : r \in selected}
        groups == {WBSGroup(key, {r \in selected : WBSKey(level, r) = key})
                      : key \in keys}
    IN  {g \in groups : g.itemCode # <<>> /\ g.totalCost > 0}

\* const isParetoCritical = cumulativePercentage <= 80
WBSIsParetoCritical(cumulativePercentage) ==
    PctLeq(cumulativePercentage, PctOf(ParetoThreshold))

\* aggregatedItems.map(...), the closure variable cumulativeCost running along
RECURSIVE WBSRank(_, _, _)
WBSRank(aggregatedItems, cumulativeBefore, totalCost) ==
    IF aggregatedItems = <<>> THEN <<>>
    ELSE LET item == Head(aggregatedItems)
             cumulativeCost == cumulativeBefore + item.totalCost
             cumulativePercentage == Percentage(cumulativeCost, totalCost)
         IN  <<[id                   |-> item.id,
                itemCode             |-> item.itemCode,
                description          |-> item.description,
                totalCost            |-> item.totalCost,
                cumulativeCost       |-> cumulativeCost,
                cumulativePercentage |-> cumulativePercentage,
                isParetoCritical     |-> WBSIsParetoCritical(cumulativePercentage),
                itemCount            |-> item.itemCount,
                quantity             |-> item.quantity,
                unitRate             |-> item.unitRate]>>
             \o WBSRank(Tail(aggregatedItems), cumulativeCost, totalCost)

WBSResult(error, totalCost, items) ==
    [error |-> error, totalCost |-> totalCost, items |-> items]

\* variant: the percentages taken against the total of all the project's items
getWBSDataGrandTotal(projects, table, p, level, parentItemCode) ==
    IF projects[p] = "absent"
    THEN {WBSResult("NotFound", 0, <<>>)}
    ELSE IF level # 1 /\ NoParentGiven(parentItemCode)
    THEN {WBSResult("InvalidArgument", 0, <<>>)}
    ELSE LET groups == WBSGroups(table, p, level, parentItemCode)
         IN  IF groups = {}
             THEN {WBSResult("none", 0, <<>>)}
             ELSE {WBSResult("none", SumTotalCost(aggregatedItems),
                             WBSRank(aggregatedItems, 0,
                                     SumTotalCost(ItemsOf(table, p))))
                      : aggregatedItems \in OrdersByTotalCostDesc(groups)}

\* variant: an empty result reported as an error
getWBSDataEmptyFails(projects, table, p, level, parentItemCode) ==
    IF projects[p] = "absent"
    THEN {WBSResult("NotFound", 0, <<>>)}
    ELSE IF level # 1 /\ NoParentGiven(parentItemCode)
    THEN {WBSResult("InvalidArgument", 0, <<>>)}
    ELSE LET groups == WBSGroups(table, p, level, parentItemCode)
         IN  IF groups = {}
             THEN {WBSResult("NotFound", 0, <<>>)}
             ELSE {WBSResult("none", SumTotalCost(aggregatedItems),
                             WBSRank(aggregatedItems, 0,
                                     SumTotalCost(aggregatedItems)))
                      : aggregatedItems \in OrdersByTotalCostDesc(groups)}

\* variant: the parent code checked ahead of the project
getWBSDataParentFirst(projects, table, p, level, parentItemCode) ==
    IF level # 1 /\ NoParentGiven(parentItemCode)
    THEN {WBSResult("InvalidArgument", 0, <<>>)}
    ELSE IF projects[p] = "absent"
    THEN {WBSResult("NotFound", 0, <<>>)}
    ELSE {WBSResult("none", 0, <<>>)}

\* GET /analysis/:projectId/wbs on the tables as they are: every response the
\* call can give (the aggregate query orders by total_cost DESC only)
getWBSData(projects, table, p, level, parentItemCode) ==
    IF projects[p] = "absent"
    THEN {WBSResult("NotFound", 0, <<>>)}
    ELSE IF level # 1 /\ NoParentGiven(parentItemCode)
    THEN {WBSResult("InvalidArgument", 0, <<>>)}
    ELSE LET groups == WBSGroups(table, p, level, parentItemCode)
         IN  IF groups = {}
             THEN {WBSResult("none", 0, <<>>)}
             ELSE {WBSResult("none", SumTotalCost(aggregatedItems),
                             WBSRank(aggregatedItems, 0,
                                     SumTotalCost(aggregatedItems)))
                      : aggregatedItems \in OrdersByTotalCostDesc(groups)}

-----------------------------------------------------------------------------
(* getAnalysisData *)

AnalysisResult(error, totalItems, totalProjectCost, paretoCriticalItems, items) ==
    [error |-> error, totalItems |-> totalItems,
     totalProjectCost |-> totalProjectCost,
     paretoCriticalItems |-> paretoCriticalItems, items |-> items]

\* SELECT SUM(total_cost) FROM boq_items WHERE project_id AND wbs_level = 1;
\* level1Items[0]?.total_cost || 0
Level1TotalCost(table, p) ==
    SumTotalCost(SelectSeq(ItemsOf(table, p), LAMBDA r : r.wbsLevel = 1))

\* items.filter(item => item.isParetoCritical).length
CountParetoCritical(items) ==
    Len(SelectSeq(items, LAMBDA item : item.isParetoCritical))

\* variant: the handler without the status test, the total over all the items
getAnalysisDataAnyStatus(projects, table, p) ==
    IF projects[p] = "absent"
    THEN {AnalysisResult("NotFound", 0, 0, 0, <<>>)}
    ELSE {AnalysisResult("none", Len(items), SumTotalCost(items),
                         CountParetoCritical(items), items) :
             items \in OrdersByTotalCostDesc(RangeOf(ItemsOf(table, p)))}

\* GET /analysis/:projectId on the tables as they are: the set of responses
\* the request can get (the ORDER BY leaves the order of equal costs open).
\*   if (!project) throw notFound
\*   items = [], totalProjectCost = 0, paretoCriticalItems = 0
\*   if (project.status === 'processed') { items = SELECT ... ORDER BY
\*     total_cost DESC; totalProjectCost = level-1 sum; paretoCriticalItems }
\*   return { totalItems: items.length, totalProjectCost, paretoCriticalItems,
\*            items }
getAnalysisData(projects, table, p) ==
    IF projects[p] = "absent"
    THEN {AnalysisResult("NotFound", 0, 0, 0, <<>>)}
    ELSE IF projects[p] = "processed"
         THEN {AnalysisResult("none", Len(items), Level1TotalCost(table, p),
                              CountParetoCritical(items), items) :
                  items \in OrdersByTotalCostDesc(RangeOf(ItemsOf(table, p)))}
         ELSE {AnalysisResult("none", 0, 0, 0, <<>>)}

-----------------------------------------------------------------------------
(* ai_insights, generateInsights, deleteProject *)

\* the descriptions of this model's rows in which
\* d.includes("steel") || ... "concrete", "cement", "material", "beton" holds
MaterialDescriptions == {"Steel", "Concrete"}

\* ... and those with "formwork", "reinforcement", "connection", "struktur",
\* "bekisting"
DesignDescriptions == {"Formwork"}

\* arr.reduce((s, it) => s + (it.total_cost || 0), 0) over a set of rows
RECURSIVE SetTotalCost(_)
SetTotalCost(rows) ==
    IF rows = {} THEN 0
    ELSE LET r == CHOOSE x \in rows : TRUE
         IN  r.totalCost + SetTotalCost(rows \ {r})

\* for (const [level, arr] of byLevel): one wbs_concentration insight for a
\* level with at least 3 critical items and more than 30 % of the total
RECURSIVE WBSConcentration(_, _, _)
WBSConcentration(levels, criticalItems, totalProjectCost) ==
    IF levels = {} THEN <<>>
    ELSE LET level == CHOOSE l \in levels : \A m \in levels : l <= m
             arr == {r \in criticalItems : r.wbsLevel = level}
         IN  (IF /\ 10 * SetTotalCost(arr) > 3 * totalProjectCost
                 /\ Cardinality(arr) >= 3
              THEN <<"wbs_concentration">> ELSE <<>>)
             \o WBSConcentration(levels \ {level}, criticalItems, totalProjectCost)

\* generateAnalysisInsights: the insight types in the order they are pushed.
\* The rows of this model carry no unit, so no rate_variance group forms; the
\* wbs_concentration insights are listed by level.
generateAnalysisInsights(criticalItems, totalProjectCost) ==
    IF totalProjectCost <= 0 THEN <<>>
    ELSE (IF \E topItem \in criticalItems :
                /\ \A o \in criticalItems : o.totalCost <= topItem.totalCost
                /\ 100 * topItem.totalCost > 15 * totalProjectCost
          THEN <<"cost_concentration">> ELSE <<>>)
         \o (IF \E it \in criticalItems : it.description \in MaterialDescriptions
             THEN <<"material_substitution">> ELSE <<>>)
         \o (IF \E it \in criticalItems : it.quantity > 100
             THEN <<"quantity_optimization">> ELSE <<>>)
         \o (IF \E it \in criticalItems : it.description \in DesignDescriptions
             THEN <<"design_optimization">> ELSE <<>>)
         \o WBSConcentration({it.wbsLevel : it \in criticalItems},
                             criticalItems, totalProjectCost)

\* a row of ai_insights (the texts and the savings figures are left out)
InsightRow(p, insightType) == [project_id |-> p, insightType |-> insightType]

\* the rows a generateInsights call that runs alone leaves for p
GeneratedInsights(table, p) ==
    LET types == generateAnalysisInsights(
                     {r \in RangeOf(ItemsOf(table, p)) : r.isParetoCritical},
                     Level1TotalCost(table, p))
    IN  [i \in 1..Len(types) |-> InsightRow(p, types[i])]

IdleGen ==
    [pc |-> "idle", projectId |-> 0, criticalItems |-> {},
     totalProjectCost |-> 0, insights |-> <<>>, i |-> 0]

\* generateInsights up to its first statement that writes:
\*   SELECT id, name FROM projects; if (!project) throw notFound
\*   SELECT ... FROM boq_items ORDER BY total_cost DESC;
\*   if (items.length === 0) throw invalidArgument
\*   SELECT COALESCE(SUM(total_cost), 0) ... AND wbs_level = 1
GenStart(p) ==
    /\ gen.pc = "idle"
    /\ calls < MaxCalls
    /\ calls' = calls + 1
    /\ IF status[p] = "absent"
       THEN /\ ended' = [outcome |-> "NotFound", projectId |-> p]
            /\ UNCHANGED gen
       ELSE IF ItemsOf(boq, p) = <<>>
            THEN /\ ended' = [outcome |-> "InvalidArgumentNoItems", projectId |-> p]
                 /\ UNCHANGED gen
            ELSE /\ gen' = [IdleGen EXCEPT
                              !.pc = "delete", !.projectId = p,
                              !.criticalItems =
                                  {r \in RangeOf(ItemsOf(boq, p)) : r.isParetoCritical},
                              !.totalProjectCost = Level1TotalCost(boq, p)]
                 /\ UNCHANGED ended
    /\ UNCHANGED <<status, boq, nextId, proc, last, probe, insights, ve, page>>

\* DELETE FROM ai_insights WHERE project_id; generateAnalysisInsights
GenDelete ==
    /\ gen.pc = "delete"
    /\ insights' = [insights EXCEPT ![gen.projectId] = <<>>]
    /\ LET built == generateAnalysisInsights(gen.criticalItems, gen.totalProjectCost)
       IN  gen' = [gen EXCEPT !.insights = built, !.i = 1,
                              !.pc = IF built = <<>> THEN "select" ELSE "insert"]
    /\ UNCHANGED <<status, boq, nextId, proc, last, ended, calls, probe, ve, page>>

\* one pass of for (const insight of insights): INSERT INTO ai_insights.
\* project_id REFERENCES projects(id): without the project row the statement
\* fails and the handler ends with the error
GenInsert ==
    /\ gen.pc = "insert"
    /\ IF status[gen.projectId] = "absent"
       THEN /\ gen' = IdleGen
            /\ ended' = [outcome |-> "Internal", projectId |-> gen.projectId]
            /\ UNCHANGED insights
       ELSE /\ insights' = [insights EXCEPT ![gen.projectId] =
                               Append(@, InsightRow(gen.projectId, gen.insights[gen.i]))]
            /\ gen' = [gen EXCEPT !.i = @ + 1,
                                  !.pc = IF gen.i = Len(gen.insights)
                                         THEN "select" ELSE "insert"]
            /\ UNCHANGED ended
    /\ UNCHANGED <<status, boq, nextId, proc, last, calls, probe, ve, page>>

\* SELECT ... FROM ai_insights WHERE project_id ORDER BY potential_savings
\* DESC; return { projectId, insights, totalPotentialSavings }
GenSelect ==
    /\ gen.pc = "select"
    /\ gen' = IdleGen
    /\ ended' = [outcome |-> "ok", projectId |-> gen.projectId]
    /\ UNCHANGED <<status, boq, nextId, proc, last, calls, probe, insights, ve, page>>

\* variant: the DELETE reaches the projects row only, no cascade
deleteProjectNoCascade(p) ==
    /\ calls < MaxCalls
    /\ calls' = calls + 1
    /\ IF status[p] = "absent"
       THEN /\ ended' = [outcome |-> "NotFound", projectId |-> p]
            /\ UNCHANGED <<status, boq, insights>>
       ELSE /\ status' = [status EXCEPT ![p] = "absent"]
            /\ ended' = [outcome |-> "ok", projectId |-> p]
            /\ UNCHANGED <<boq, insights>>
    /\ UNCHANGED <<nextId, proc, last, probe, gen, ve, page>>

\* DELETE /projects/:projectId
\*   SELECT * FROM projects WHERE id; if (!project) throw notFound
\*   filesBucket.remove (a failure is only logged)
\*   DELETE FROM projects WHERE id: boq_items.project_id and
\*   ai_insights.project_id are REFERENCES projects(id) ON DELETE CASCADE
\*   return { success: true }
deleteProject(p) ==
    /\ calls < MaxCalls
    /\ calls' = calls + 1
    /\ IF status[p] = "absent"
       THEN /\ ended' = [outcome |-> "NotFound", projectId |-> p]
            /\ UNCHANGED <<status, boq, insights>>
       ELSE /\ status' = [status EXCEPT ![p] = "absent"]
            /\ boq' = DeleteItems(boq, p)
            /\ insights' = [insights EXCEPT ![p] = <<>>]
            /\ ended' = [outcome |-> "ok", projectId |-> p]
    /\ UNCHANGED <<nextId, proc, last, probe, gen, ve, page>>

-----------------------------------------------------------------------------
(* veSuggestions: the model-call loop and the alternatives of the response *)

maxRetries == 3

InitialDelay == 1000

\* at most this many alternatives in one model payload
MaxAlts == 3

\* workCategory, lower-cased; "landscape" stands for any string that is no key
\* of fallbackOptions
Categories == {"structure", "finishing", "mep", "other", "landscape"}

\* parsed.alternatives: each alternative passes the filter on description and
\* savingPercent ("valid") or does not
Payloads ==
    UNION {[1..n -> {"valid", "invalid"}] : n \in 0..MaxAlts}

\* what one generateContent call can come to: a payload with alternatives
\* (an empty or unparsable one is the empty payload), an error whose message
\* has "429 Too Many Requests", any other error
ModelOutcomes ==
    {[kind |-> "payload", alternatives |-> a] : a \in Payloads}
        \cup {[kind |-> "error429", alternatives |-> <<>>],
              [kind |-> "error", alternatives |-> <<>>]}

\* parsed.alternatives.slice(0, 2).filter(valid)
ValidAlts(alternatives) ==
    SelectSeq(SubSeq(alternatives, 1, IF Len(alternatives) < 2
                                      THEN Len(alternatives) ELSE 2),
              LAMBDA alt : alt = "valid")

IdleVE ==
    [pc |-> "idle", category |-> "structure", attempt |-> 0, delay |-> 0,
     modelAlts |-> <<>>, modelCalls |-> 0, waits |-> <<>>,
     outcome |-> "none", alternatives |-> <<>>]

\* the handler up to the loop: category, modelAlts = [], attempt = 0,
\* delay = 1000
VEStart(category) ==
    [IdleVE EXCEPT !.pc = "call", !.category = category,
                   !.delay = InitialDelay]

\* one pass of while (attempt < maxRetries) up to its await or its end:
\* generateContent, then break, attempt++ or the wait before attempt++
VECall(outcome) ==
    /\ ve.pc = "call"
    /\ ve.attempt < maxRetries
    /\ LET valid == ValidAlts(outcome.alternatives)
           next == IF ve.attempt + 1 < maxRetries THEN "call" ELSE "compute"
       IN  ve' = [ve EXCEPT
                    !.modelCalls = @ + 1,
                    !.outcome = IF outcome.kind = "payload"
                                THEN (IF valid # <<>> THEN "valid" ELSE "novalid")
                                ELSE outcome.kind,
                    !.modelAlts = IF outcome.kind = "payload" /\ outcome.alternatives # <<>>
                                  THEN valid ELSE @,
                    !.attempt = IF outcome.kind = "payload" /\ valid = <<>>
                                THEN @ + 1 ELSE @,
                    !.pc = IF outcome.kind = "payload"
                           THEN (IF valid # <<>> THEN "compute" ELSE next)
                           ELSE IF outcome.kind = "error429"
                                   /\ ve.attempt < maxRetries - 1
                                THEN "wait" ELSE "compute"]
    /\ UNCHANGED <<status, boq, nextId, proc, last, ended, calls, probe, insights, gen, page>>

\* variant: the delay kept as it is
VEWaitFixedDelay ==
    /\ ve.pc = "wait"
    /\ ve' = [ve EXCEPT !.waits = Append(@, ve.delay),
                        !.attempt = @ + 1,
                        !.pc = "call"]
    /\ UNCHANGED <<status, boq, nextId, proc, last, ended, calls, probe, insights, gen, page>>

\* await new Promise(resolve => setTimeout(resolve, delay)); delay *= 2;
\* attempt++
VEWait ==
    /\ ve.pc = "wait"
    /\ ve' = [ve EXCEPT !.waits = Append(@, ve.delay),
                        !.delay = @ * 2,
                        !.attempt = @ + 1,
                        !.pc = "call"]
    /\ UNCHANGED <<status, boq, nextId, proc, last, ended, calls, probe, insights, gen, page>>

\* the keys of fallbackOptions
FallbackCategories == {"structure", "finishing", "mep", "other"}

\* an alternative of the response: computed from a model alternative, or an
\* option of the fallback list of a category
Alternative(kind, category) == [kind |-> kind, category |-> category]

\* for (const m of modelAlts) alts.push(...); if (alts.length === 0) the two
\* options of fallbackOptions[category] || fallbackOptions["structure"];
\* alternatives: alts.slice(0, 2)
VECompute ==
    /\ ve.pc = "compute"
    /\ LET options == IF ve.category \in FallbackCategories
                      THEN ve.category ELSE "structure"
           alts == IF ve.modelAlts # <<>>
                   THEN [i \in 1..Len(ve.modelAlts) |-> Alternative("model", "none")]
                   ELSE <<Alternative("fallback", options),
                          Alternative("fallback", options)>>
       IN  ve' = [ve EXCEPT !.alternatives = SubSeq(alts, 1, IF Len(alts) < 2
                                                            THEN Len(alts) ELSE 2),
                            !.pc = "done"]
    /\ UNCHANGED <<status, boq, nextId, proc, last, ended, calls, probe, insights, gen, page>>

-----------------------------------------------------------------------------
(* The analysis page: the drill-down list wbsLevels *)

\* if (level >= 3) return; // Max 3 levels
MaxDrillLevel == 3

\* useState<WBSLevelData[]>([{ level: 1 }]); setWbsLevels([{ level: 1 }])
LevelOneOnly ==
    <<[level |-> 1, parentItemCode |-> Null, parentDescription |-> Null]>>

\* wbsLevels, isProcessing, the title of the toast shown last, and the latest
\* click on a chart item (the level of the chart and the item), kept to tell
\* what a step was
InitialPage ==
    [wbsLevels |-> LevelOneOnly, isProcessing |-> FALSE, toast |-> "none",
     clicked |-> Null]

\* the items a chart of the page can show: rows of a getWBSData response,
\* whose item codes are never empty
PageItems ==
    {[itemCode |-> Str1, description |-> "Substructure"],
     [itemCode |-> Str2, description |-> "Roofing"],
     [itemCode |-> Str1_1, description |-> "Excavation"],
     [itemCode |-> Str1_1_1, description |-> "Trench"]}

\* variant: the new level appended to the whole list
handleWBSItemClickNoSlice(item, level) ==
    /\ \E index \in 1..Len(page.wbsLevels) : page.wbsLevels[index].level = level
    /\ page' = [page EXCEPT
                  !.clicked = Some([level |-> level, item |-> item]),
                  !.wbsLevels =
                      IF level >= MaxDrillLevel THEN @
                      ELSE @ \o <<[level |-> level + 1,
                                   parentItemCode |-> Some(item.itemCode),
                                   parentDescription |-> Some(item.description)]>>]
    /\ UNCHANGED <<status, boq, nextId, proc, last, ended, calls, probe, insights, gen, ve>>

\* onItemClick={(item) => handleWBSItemClick(item, levelData.level)} on the
\* chart of an entry of wbsLevels:
\*   if (level >= 3) return
\*   newWbsLevels = wbsLevels.slice(0, level); push({ level: level + 1,
\*     parentItemCode: item.itemCode, parentDescription: item.description })
\*   setWbsLevels(newWbsLevels)
handleWBSItemClick(item, level) ==
    /\ \E index \in 1..Len(page.wbsLevels) : page.wbsLevels[index].level = level
    /\ page' = [page EXCEPT
                  !.clicked = Some([level |-> level, item |-> item]),
                  !.wbsLevels =
                      IF level >= MaxDrillLevel THEN @
                      ELSE SubSeq(@, 1, level)
                               \o <<[level |-> level + 1,
                                     parentItemCode |-> Some(item.itemCode),
                                     parentDescription |-> Some(item.description)]>>]
    /\ UNCHANGED <<status, boq, nextId, proc, last, ended, calls, probe, insights, gen, ve>>

\* handleProcessSpreadsheet up to its await (the button is disabled while
\* isProcessing): setIsProcessing(true); backend.analysis.processSpreadsheet
handleProcessSpreadsheet ==
    /\ ~page.isProcessing
    /\ page' = [page EXCEPT !.isProcessing = TRUE, !.clicked = Null]
    /\ UNCHANGED <<status, boq, nextId, proc, last, ended, calls, probe, insights, gen, ve>>

\* the await returned: refetch, setWbsLevels([{ level: 1 }]);
\* the toast; finally setIsProcessing(false)
ProcessingComplete ==
    /\ page.isProcessing
    /\ page' = [page EXCEPT !.isProcessing = FALSE, !.wbsLevels = LevelOneOnly,
                            !.toast = "Processing complete", !.clicked = Null]
    /\ UNCHANGED <<status, boq, nextId, proc, last, ended, calls, probe, insights, gen, ve>>

\* the await threw: the toast; finally setIsProcessing(false)
ProcessingFailed ==
    /\ page.isProcessing
    /\ page' = [page EXCEPT !.isProcessing = FALSE,
                            !.toast = "Processing failed", !.clicked = Null]
    /\ UNCHANGED <<status, boq, nextId, proc, last, ended, calls, probe, insights, gen, ve>>

-----------------------------------------------------------------------------
(* The system *)

NoProbe == [row |-> Row(<<>>, "", 0, 0, 0), parsed |-> FALSE, item |-> Null]

InitTables ==
    /\ status = [p \in ProjectIds |-> "absent"]
    /\ boq = [p \in ProjectIds |-> <<>>]
    /\ nextId = [p \in ProjectIds |-> 1]
    /\ proc = [k \in Slots |-> IdleProc]
    /\ last = [p \in ProjectIds |-> NoCall]
    /\ ended = [outcome |-> "none", projectId |-> 0]
    /\ calls = 0
    /\ insights = [p \in ProjectIds |-> <<>>]
    /\ gen = IdleGen

Init ==
    /\ InitTables
    /\ probe = NoProbe
    /\ ve = IdleVE
    /\ page = InitialPage

Next ==
    \/ \E p \in ProjectIds : uploadFile(p)
    \/ \E k \in Slots, p \in ProjectIds : ProcStart(k, p)
    \/ \E k \in Slots : ProcDelete(k)
    \/ \E k \in Slots : ProcInsert(k)
    \/ \E k \in Slots : ProcUpdate(k)
    \/ \E k \in Slots : ProcSelect(k)

Spec == Init /\ [][Next]_vars

-----------------------------------------------------------------------------
(* The row loop on its own: one pass over one row drawn from bounded sets *)

\* longest item code text drawn
MaxCodeLen == 4

CodeChars == {"1", "2", "A", ".", " "}

RECURSIVE TextsUpTo(_)
TextsUpTo(n) ==
    IF n = 0 THEN {<<>>}
    ELSE LET shorter == TextsUpTo(n - 1)
         IN  shorter \cup {Append(t, c) : t \in shorter, c \in CodeChars}

ProbeRows ==
    {Row(code, desc, qty, rate, total) :
        code \in TextsUpTo(MaxCodeLen), desc \in {"", "Slab"},
        qty \in {0, 2}, rate \in {0, 3}, total \in {0 - 5, 0, 4}}

\* the body of `for (const row of data)` for the drawn row
ParseProbe ==
    /\ ~probe.parsed
    /\ probe' = [probe EXCEPT !.parsed = TRUE,
                              !.item = IF RowAccepted(probe.row)
                                       THEN Some(RowItem(probe.row)) ELSE Null]
    /\ UNCHANGED <<status, boq, nextId, proc, last, ended, calls, insights, gen, ve, page>>

InitRow ==
    /\ InitTables
    /\ \E row \in ProbeRows : probe = [NoProbe EXCEPT !.row = row]
    /\ ve = IdleVE
    /\ page = InitialPage

NextRow == ParseProbe

SpecRow == InitRow /\ [][NextRow]_vars

-----------------------------------------------------------------------------
(* getWBSData on its own: one request on tables that process has written *)

Str1_1_1_1 == <<"1", ".", "1", ".", "1", ".", "1">>

\* the table a process call for p that runs alone on `data` leaves behind
\* when it starts from an empty sequence: DELETE, sort, one INSERT per item
ProcessedTable(p, data) ==
    LET items == SortByTotalCostDesc(ParseRows(data))
        totalProjectCost == SumTotalCost(items)
    IN  [i \in 1..Len(items) |->
            LET step == CumulativeStep(SumTotalCost(SubSeq(items, 1, i - 1)),
                                       items[i], totalProjectCost)
            IN  InsertedRow(i, p, items[i], step.cumulativeCost,
                            step.cumulativePercentage)]

\* the rows the spreadsheets of this specification are made of: a top-level
\* row and its descendants down to level 4, a code that occurs twice, a
\* second branch, equal costs, and a code that does not begin with a digit
WBSRows ==
    <<Row(Str1, "Substructure", 1, 400, 0),
      Row(Str1_1, "Excavation", 1, 300, 0),
      Row(Str1_2, "Backfill", 1, 100, 0),
      Row(Str1_1, "Trimming", 1, 100, 0),
      Row(Str1_1_1, "Trench", 1, 50, 0),
      Row(Str1_1_1_1, "Shoring", 1, 20, 0),
      Row(Str2, "Roofing", 1, 400, 0),
      Row(Str2_1, "Tiles", 1, 100, 0),
      Row(StrA_1, "Sundries", 1, 10, 0)>>

\* the spreadsheet made of the rows of WBSRows at the positions in S
RECURSIVE WBSFile(_, _)
WBSFile(S, n) ==
    IF n = 0 THEN <<>>
    ELSE IF n \in S THEN Append(WBSFile(S, n - 1), WBSRows[n])
    ELSE WBSFile(S, n - 1)

\* deepest level requested
MaxLevel == 4

WBSLevels == 1..MaxLevel
WBSParents ==
    {Null, Some(StrEmpty), Some(Str1), Some(Str1_1), Some(Str1_1_1), Some(Str2)}

\* the request under examination and the response to it, once given
WBSProbe(p, level, parentItemCode) ==
    [projectId |-> p, level |-> level, parentItemCode |-> parentItemCode,
     response |-> Null]

\* GET /analysis/:projectId/wbs for the drawn request: SELECT statements only
GetWBS ==
    /\ \E r \in getWBSData(status, boq, probe.projectId, probe.level,
                            probe.parentItemCode) :
           probe' = [probe EXCEPT !.response = Some(r)]
    /\ UNCHANGED <<status, boq, nextId, proc, last, ended, calls, insights, gen, ve, page>>

\* project 1 is absent, uploaded and never processed, or processed from some
\* of the rows; project 2 is absent or processed from the two-row scenario
InitWBS ==
    /\ \E S \in SUBSET (1..Len(WBSRows)), first \in {"absent", "uploaded"},
          second \in {"absent", "processed"} :
          /\ status = [p \in ProjectIds |->
                          IF p = 1 THEN (IF S = {} THEN first ELSE "processed")
                          ELSE second]
          /\ boq = [p \in ProjectIds |->
                       IF p = 1 THEN ProcessedTable(1, WBSFile(S, Len(WBSRows)))
                       ELSE IF second = "processed"
                            THEN ProcessedTable(p, FileScenario) ELSE <<>>]
    /\ nextId = [p \in ProjectIds |-> Len(boq[p]) + 1]
    /\ proc = [k \in Slots |-> IdleProc]
    /\ last = [p \in ProjectIds |-> NoCall]
    /\ ended = [outcome |-> "none", projectId |-> 0]
    /\ calls = 0
    /\ insights = [p \in ProjectIds |-> <<>>]
    /\ gen = IdleGen
    /\ ve = IdleVE
    /\ page = InitialPage
    /\ \E p \in ProjectIds, level \in WBSLevels, parentItemCode \in WBSParents :
          probe = WBSProbe(p, level, parentItemCode)

NextWBS == GetWBS

SpecWBS == InitWBS /\ [][NextWBS]_vars

-----------------------------------------------------------------------------
(* Deleting projects: deleteProject among process and generateInsights calls *)

\* Both projects are there, processed from the mixed file, each with the
\* insights a generateInsights call leaves.
InitDelete ==
    /\ status = [p \in ProjectIds |-> "processed"]
    /\ boq = [p \in ProjectIds |-> ProcessedTable(p, FileMixed)]
    /\ nextId = [p \in ProjectIds |-> Len(boq[p]) + 1]
    /\ insights = [p \in ProjectIds |-> GeneratedInsights(boq, p)]
    /\ gen = IdleGen
    /\ ve = IdleVE
    /\ page = InitialPage
    /\ proc = [k \in Slots |-> IdleProc]
    /\ last = [p \in ProjectIds |-> NoCall]
    /\ ended = [outcome |-> "none", projectId |-> 0]
    /\ calls = 0
    /\ probe = NoProbe

NextDelete ==
    \/ \E p \in ProjectIds : deleteProject(p)
    \/ \E p \in ProjectIds : GenStart(p)
    \/ GenDelete
    \/ GenInsert
    \/ GenSelect
    \/ \E k \in Slots, p \in ProjectIds : ProcStart(k, p)
    \/ \E k \in Slots : ProcDelete(k)
    \/ \E k \in Slots : ProcInsert(k)
    \/ \E k \in Slots : ProcUpdate(k)
    \/ \E k \in Slots : ProcSelect(k)

SpecDelete == InitDelete /\ [][NextDelete]_vars

-----------------------------------------------------------------------------
(* One veSuggestions call, for every course the model calls can take *)

InitVE ==
    /\ InitTables
    /\ probe = NoProbe
    /\ \E category \in Categories : ve = VEStart(category)
    /\ page = InitialPage

NextVE ==
    \/ \E outcome \in ModelOutcomes : VECall(outcome)
    \/ VEWait
    \/ VECompute

SpecVE == InitVE /\ [][NextVE]_vars

-----------------------------------------------------------------------------
(* The analysis page under clicks on chart items and process runs *)

InitPage ==
    /\ InitTables
    /\ probe = NoProbe
    /\ ve = IdleVE
    /\ page = InitialPage

NextPage ==
    \/ \E item \in PageItems, level \in 1..MaxDrillLevel :
          handleWBSItemClick(item, level)
    \/ handleProcessSpreadsheet
    \/ ProcessingComplete
    \/ ProcessingFailed

SpecPage == InitPage /\ [][NextPage]_vars

-----------------------------------------------------------------------------
(* Vocabulary of the properties *)

\* no process call for p is in flight
Quiet(p) == \A k \in Slots : Active(k) => proc[k].projectId # p

\* the latest process call for p succeeded and ran alone on p
CleanOk(p) == Quiet(p) /\ last[p].outcome = "ok" /\ ~last[p].ovl

\* what a stored or returned row says about the spreadsheet row it came from
ItemFields(r) ==
    [itemCode |-> r.itemCode, description |-> r.description,
     quantity |-> r.quantity, unitRate |-> r.unitRate,
     totalCost |-> r.totalCost]

FieldsOf(rows) == [i \in 1..Len(rows) |-> ItemFields(rows[i])]

Count(seq, x) == Cardinality({i \in 1..Len(seq) : seq[i] = x})

SameBag(a, b) ==
    /\ Len(a) = Len(b)
    /\ \A x \in RangeOf(a) \cup RangeOf(b) : Count(a, x) = Count(b, x)

\* a response without the storage-assigned ids
Content(response) ==
    [totalItems          |-> response.totalItems,
     totalProjectCost    |-> response.totalProjectCost,
     paretoCriticalItems |-> response.paretoCriticalItems,
     items |-> [i \in 1..Len(response.items) |->
                  [itemCode             |-> response.items[i].itemCode,
                   totalCost            |-> response.items[i].totalCost,
                   cumulativeCost       |-> response.items[i].cumulativeCost,
                   cumulativePercentage |-> response.items[i].cumulativePercentage,
                   isParetoCritical     |-> response.items[i].isParetoCritical]]]

\* sum of totalCost over items 1..i of a sequence
RECURSIVE PrefixCost(_, _)
PrefixCost(seq, i) ==
    IF i = 0 THEN 0 ELSE PrefixCost(seq, i - 1) + seq[i].totalCost

\* the three properties of a ranked sequence
CumulativeOk(seq) ==
    /\ \A i \in 1..Len(seq) : seq[i].cumulativeCost = PrefixCost(seq, i)
    /\ \A i \in 1..(Len(seq) - 1) :
           PctLeq(seq[i].cumulativePercentage, seq[i + 1].cumulativePercentage)
    /\ seq # <<>> => seq[Len(seq)].cumulativePercentage = PctOf(100)

\* the requests getWBSData is examined on: level 1 (which ignores the parent),
\* level 2 without a parent, with an empty one and with either top-level
\* code, and a level that takes the last branch
Request(level, parentItemCode) ==
    [level |-> level, parentItemCode |-> parentItemCode]

Requests ==
    {Request(1, Null), Request(2, Null), Request(2, Some(StrEmpty)),
     Request(2, Some(Str1)), Request(2, Some(Str2)), Request(3, Some(Str1))}

\* every response getWBSData can give to one of these requests
WBSResponses ==
    UNION {getWBSData(status, boq, p, req.level, req.parentItemCode) :
              p \in ProjectIds, req \in Requests}

\* P holds of every such response
EveryWBSResponse(P(_)) ==
    \A p \in ProjectIds : \A req \in Requests :
        \A r \in getWBSData(status, boq, p, req.level, req.parentItemCode) : P(r)

-----------------------------------------------------------------------------
(* C1..C10 *)

\* C1: a process call that fails because no row of a non-empty spreadsheet
\* survives the row loop leaves the project's stored line items and its status
\* as they were.
C1_NoItemsFailureMutatesNothing ==
    [][\A k \in Slots :
          (/\ proc[k].pc = "delete"
           /\ proc'[k].pc = "idle"
           /\ ended'.outcome = "InvalidArgumentNoItems")
          => /\ ItemsOf(boq', proc[k].projectId) = ItemsOf(boq, proc[k].projectId)
             /\ status' = status]_vars

\* C2: a process call that fails because the project does not exist, the file
\* cannot be fetched or the sheet has no row deletes and writes no line item
\* of any project and changes no status.
C2_EarlyFailureMutatesNothing ==
    [][(calls' = calls + 1 /\ proc' = proc)
          => /\ ended'.outcome \in {"NotFound", "Internal", "InvalidArgumentNoData"}
             /\ ended'.outcome = "NotFound" <=> status[ended'.projectId] = "absent"
             /\ boq' = boq
             /\ status' = status]_vars

C2_Witness ==
    /\ ended.outcome = "InvalidArgumentNoData"
    /\ status[ended.projectId] = "processed"
    /\ ItemsOf(boq, ended.projectId) # <<>>

\* C3: once the latest of a series of non-overlapping process calls on a
\* project has succeeded, the project's stored items are one per accepted row
\* of the file that call read, and nothing else.
C3_StoreReflectsLastCall ==
    \A p \in ProjectIds :
        CleanOk(p) =>
            /\ SameBag(FieldsOf(ItemsOf(boq, p)), FieldsOf(ParseRows(last[p].data)))
            /\ Len(ItemsOf(boq, p)) = Cardinality({i \in 1..Len(last[p].data) :
                                                     RowAccepted(last[p].data[i])})

\* the lowest id stored for p shows that earlier rows of p have been deleted
C3_Witness ==
    \E p \in ProjectIds :
        /\ CleanOk(p)
        /\ ItemsOf(boq, p) # <<>>
        /\ ItemsOf(boq, p)[1].id > 1

\* C4: two successive process calls on a project that read the same file
\* return the same items, totals and counts, ids aside.
C4_ReprocessingIsIdempotent ==
    [][\A p \in ProjectIds :
          (/\ last'[p] # last[p]
           /\ last[p].outcome = "ok" /\ ~last[p].ovl
           /\ last'[p].outcome = "ok" /\ ~last'[p].ovl
           /\ last'[p].data = last[p].data)
          => Content(last'[p].response) = Content(last[p].response)]_vars

\* C5: the totalProjectCost a successful process call returns is the sum of
\* totalCost over the accepted items of WBS level 1.
C5_TotalIsLevelOneSum ==
    \A p \in ProjectIds :
        last[p].outcome = "ok" =>
            last[p].response.totalProjectCost =
                SumTotalCost(SelectSeq(ParseRows(last[p].data),
                                       LAMBDA item : item.wbsLevel = 1))

\* C6: the items process returns are in non-increasing totalCost order, and
\* accepted rows of equal totalCost keep their spreadsheet order.
C6_ReturnedOrderIsStable ==
    \A p \in ProjectIds :
        CleanOk(p) =>
            LET returned == FieldsOf(last[p].response.items)
                accepted == FieldsOf(ParseRows(last[p].data))
            IN  \A i, j \in 1..Len(returned) :
                    i < j =>
                        /\ returned[i].totalCost >= returned[j].totalCost
                        /\ returned[i].totalCost = returned[j].totalCost
                             => \E a, b \in 1..Len(accepted) :
                                    /\ a < b
                                    /\ accepted[a] = returned[i]
                                    /\ accepted[b] = returned[j]

C8_CriticalIffAtMost80 ==
    LET Right(r) == r.isParetoCritical <=> PctLeq(r.cumulativePercentage, <<80, 1>>)
    IN  /\ \A p \in ProjectIds : \A i \in 1..Len(boq[p]) : Right(boq[p][i])
        /\ \A p \in ProjectIds : \A i \in 1..Len(last[p].response.items) :
               Right(last[p].response.items[i])
        /\ EveryWBSResponse(LAMBDA r : \A i \in 1..Len(r.items) : Right(r.items[i]))

C8_Witness ==
    /\ \E p \in ProjectIds : \E i \in 1..Len(boq[p]) :
          boq[p][i].cumulativePercentage = <<80, 1>> /\ boq[p][i].isParetoCritical
    /\ \E p \in ProjectIds : \E i \in 1..Len(boq[p]) :
          /\ ~PctLeq(boq[p][i].cumulativePercentage, <<80, 1>>)
          /\ ~boq[p][i].isParetoCritical
    /\ \E r \in WBSResponses : \E i \in 1..Len(r.items) :
          r.items[i].cumulativePercentage = <<80, 1>> /\ r.items[i].isParetoCritical

\* the scenario's outcome with the Pareto flag of Concrete left open
ScenarioRanked(p, concreteCritical) ==
    LET items == last[p].response.items
    IN  /\ Len(items) = 2
        /\ items[1].description = "Concrete"
        /\ items[1].itemCode = Str2
        /\ items[1].totalCost = 9000
        /\ items[1].cumulativePercentage = <<90, 1>>
        /\ items[1].isParetoCritical = concreteCritical
        /\ items[2].description = "Sitework"
        /\ items[2].itemCode = Str1
        /\ items[2].totalCost = 1000
        /\ items[2].cumulativePercentage = <<100, 1>>
        /\ items[2].isParetoCritical = FALSE

\* C9 as stated: the two rows Sitework (1 x 1000) and Concrete (1 x 9000) rank
\* as Concrete (9000, 90 %, critical), Sitework (1000, 100 %, not critical).
C9_ScenarioAsStated ==
    \A p \in ProjectIds :
        (CleanOk(p) /\ last[p].data = FileScenario) => ScenarioRanked(p, TRUE)

\* C9 as amended: the two rows rank as Concrete (9000, 90 %), Sitework
\* (1000, 100 %), and neither is critical: 90 exceeds the threshold 80.
C9_ScenarioAmended ==
    \A p \in ProjectIds :
        (CleanOk(p) /\ last[p].data = FileScenario) =>
            /\ ScenarioRanked(p, FALSE)
            /\ last[p].response.paretoCriticalItems = 0
            /\ last[p].response.totalItems = 2

C9_Witness ==
    \E p \in ProjectIds : CleanOk(p) /\ last[p].data = FileScenario

\* position of the last dot of a text, 0 if it has none
LastDot(s) ==
    IF DotCount(s) = 0 THEN 0
    ELSE CHOOSE i \in 1..Len(s) : s[i] = "." /\ \A j \in (i + 1)..Len(s) : s[j] # "."

\* C10: the level of a non-empty code is its number of dot-separated
\* segments, its parent is the code without its last segment (none for a
\* single segment), and so wbsLevel is 1 without a parent and one more than
\* the parent's level with one.
C10_HierarchyDerivation ==
    /\ getParentItemCode(Str1_2_3) = Some(Str1_2)
    /\ determineWBSLevelFromCode(Str1_2_3) = 3
    /\ getParentItemCode(Str7) = Null
    /\ determineWBSLevelFromCode(Str7) = 1
    /\ probe.item # Null =>
          LET item == probe.item[1]
              code == item.itemCode
          IN  /\ code # <<>>
              /\ item.wbsLevel = DotCount(code) + 1
              /\ DotCount(code) = 0 <=> item.parentItemCode = Null
              /\ DotCount(code) > 0 =>
                    item.parentItemCode = Some(SubSeq(code, 1, LastDot(code) - 1))
              /\ item.parentItemCode = Null => item.wbsLevel = 1
              /\ item.parentItemCode # Null =>
                    item.wbsLevel =
                        determineWBSLevelFromCode(item.parentItemCode[1]) + 1

C10_Witness ==
    /\ probe.item # Null
    /\ probe.item[1].itemCode = Str1_2
    /\ probe.row.code # Str1_2
    /\ probe.item[1].wbsLevel = 2
    /\ probe.item[1].parentItemCode = Some(Str1)

-----------------------------------------------------------------------------
(* C11..C20 *)

\* the rows of a spreadsheet that have a code left after trimming, a
\* description and a final cost above zero
KeptRows(data) ==
    {i \in 1..Len(data) :
        /\ Trim(data[i].code) # <<>>
        /\ data[i].desc # ""
        /\ RowTotalCost(data[i]) > 0}

\* the item comes from row i of the spreadsheet
FromRow(item, data, i) ==
    /\ item.itemCode = Trim(data[i].code)
    /\ item.description = data[i].desc
    /\ item.quantity = data[i].qty
    /\ item.unitRate = data[i].rate

\* C11: a row with an empty code (after trimming), an empty description or a
\* final totalCost that is not above zero is dropped silently: the items a
\* process call returns and the items it leaves stored are one per other row
\* and come from the other rows only, and the call fails for want of items
\* only when no row is kept.
C11_RejectedRowsDropped ==
    \A p \in ProjectIds :
        /\ CleanOk(p) =>
              LET data == last[p].data
                  returned == last[p].response.items
                  stored == ItemsOf(boq, p)
              IN  /\ Len(returned) = Cardinality(KeptRows(data))
                  /\ Len(stored) = Cardinality(KeptRows(data))
                  /\ \A j \in 1..Len(returned) :
                         \E i \in KeptRows(data) : FromRow(returned[j], data, i)
                  /\ \A j \in 1..Len(stored) :
                         \E i \in KeptRows(data) : FromRow(stored[j], data, i)
        /\ last[p].outcome = "InvalidArgumentNoItems" => KeptRows(last[p].data) = {}

\* a successful call on a file that has rows of all three rejected kinds
C11_Witness ==
    \E p \in ProjectIds :
        /\ CleanOk(p)
        /\ last[p].data = FileMixed
        /\ Cardinality(KeptRows(FileMixed)) = 3
        /\ Len(FileMixed) = 5

\* C12: the totalCost of a parsed row is the supplied total when that is
\* above zero and quantity * unitRate when the total is missing, zero or
\* negative; a row with a negative total and quantity * unitRate > 0 is
\* accepted at quantity * unitRate.
C12_TotalCostDerivation ==
    probe.parsed =>
        LET row == probe.row
            derived == row.qty * row.rate
            final == IF row.total > 0 THEN row.total ELSE derived
        IN  /\ probe.item # Null => probe.item[1].totalCost = final
            /\ (Trim(row.code) # <<>> /\ row.desc # "" /\ final > 0)
                   => probe.item # Null

\* C13: getWBSData fails with NotFound when the project does not exist, with
\* InvalidArgument when the level is 2 or more and no parent code is given,
\* with NotFound when both hold; a failing call changes nothing stored.
C13_WBSFailures ==
    [][probe'.response # Null =>
          LET r == probe'.response[1]
              missing == status[probe.projectId] = "absent"
              orphan == probe.level >= 2 /\ probe.parentItemCode = Null
          IN  /\ missing => r.error = "NotFound"
              /\ (orphan /\ ~missing) => r.error = "InvalidArgument"
              /\ r.error = "NotFound" => missing
              /\ r.error # "none" => (boq' = boq /\ status' = status)]_vars

\* a level 2 request without a parent code for a project that does not exist
C13_Witness ==
    /\ probe.response = Some(WBSResult("NotFound", 0, <<>>))
    /\ probe.level = 2
    /\ probe.parentItemCode = Null
    /\ status[probe.projectId] = "absent"

\* the persisted items of project p with the given wbsLevel
ItemsAtLevel(p, level) ==
    SelectSeq(ItemsOf(boq, p), LAMBDA r : r.wbsLevel = level)

\* C14: at level 1 getWBSData selects the persisted items of wbsLevel 1 only:
\* each returned row carries the cost of the level 1 items of its code and of
\* no deeper item, and the response totalCost is the sum over the level 1
\* items.
C14_LevelOneOnly ==
    (probe.response # Null /\ probe.level = 1 /\ probe.response[1].error = "none") =>
        LET r == probe.response[1]
            levelOne == ItemsAtLevel(probe.projectId, 1)
        IN  /\ r.totalCost = SumTotalCost(levelOne)
            /\ {r.items[i].itemCode : i \in 1..Len(r.items)}
                   = {levelOne[i].itemCode : i \in 1..Len(levelOne)}
            /\ \A i \in 1..Len(r.items) :
                   r.items[i].totalCost =
                       SumTotalCost(SelectSeq(levelOne,
                           LAMBDA x : x.itemCode = r.items[i].itemCode))

\* the item codes of the rows of a response
RowCodes(r) == {r.items[i].itemCode : i \in 1..Len(r.items)}

\* C15: for a level of 2 or more (4 and deeper included) and a parent code P
\* getWBSData selects exactly the persisted items whose code begins with P
\* and a dot and has level - 1 dots.
C15_DirectChildrenOnly ==
    (/\ probe.response # Null
     /\ probe.level >= 2
     /\ probe.response[1].error = "none") =>
        LET stored == ItemsOf(boq, probe.projectId)
            prefix == probe.parentItemCode[1] \o <<".">>
            children == {i \in 1..Len(stored) :
                           /\ Len(stored[i].itemCode) > Len(prefix)
                           /\ SubSeq(stored[i].itemCode, 1, Len(prefix)) = prefix
                           /\ DotCount(stored[i].itemCode) = probe.level - 1}
        IN  RowCodes(probe.response[1]) = {stored[i].itemCode : i \in children}

\* the table without the items of project p outside the branch below `parent`
BranchOnly(table, p, parent) ==
    [table EXCEPT ![p] = SelectSeq(@, LAMBDA r : LikeChildOf(r.itemCode, parent))]

\* the cumulativePercentage of each row of a response, in order
Percentages(r) == [i \in 1..Len(r.items) |-> r.items[i].cumulativePercentage]

\* C16: the rows getWBSData returns for level 2 under parent "1" have their
\* cumulativePercentage and isParetoCritical computed against the sum of the
\* returned rows, the response is the one the items below "1" alone would
\* give, whatever the other branches and projects hold, and children costing
\* 300 and 100 come out at 75 and 100.
C16_LevelRelativeBasis ==
    (/\ probe.response # Null
     /\ probe.level = 2
     /\ probe.parentItemCode = Some(Str1)
     /\ probe.response[1].error = "none") =>
        LET r == probe.response[1]
            p == probe.projectId
            sum == PrefixCost(r.items, Len(r.items))
        IN  /\ r.totalCost = sum
            /\ \A i \in 1..Len(r.items) :
                   /\ r.items[i].cumulativePercentage
                          = Percentage(PrefixCost(r.items, i), sum)
                   /\ r.items[i].isParetoCritical
                          <=> PctLeq(Percentage(PrefixCost(r.items, i), sum), PctOf(80))
            /\ r \in getWBSData([q \in ProjectIds |-> IF q = p THEN status[q] ELSE "absent"],
                                [q \in ProjectIds |->
                                    IF q = p THEN BranchOnly(boq, p, Str1)[p] ELSE <<>>],
                                p, 2, Some(Str1))
            /\ [i \in 1..Len(r.items) |-> r.items[i].totalCost] = <<300, 100>>
                   => Percentages(r) = <<PctOf(75), PctOf(100)>>

\* children of "1" costing 300 and 100 in a project that has items worth more
\* in other branches, next to another project with items
C16_Witness ==
    /\ probe.response # Null
    /\ probe.level = 2
    /\ probe.parentItemCode = Some(Str1)
    /\ Percentages(probe.response[1]) = <<PctOf(75), PctOf(100)>>
    /\ \E i \in 1..Len(boq[probe.projectId]) :
           boq[probe.projectId][i].itemCode = Str2
    /\ \E q \in ProjectIds : q # probe.projectId /\ boq[q] # <<>>

\* the persisted items the query of the requested level selects, in id order
SelectedItems(p, level, parentItemCode) ==
    SelectSeq(ItemsOf(boq, p),
              LAMBDA r : r \in WBSSelected(boq, p, level, parentItemCode))

RECURSIVE SumQuantity(_)
SumQuantity(items) ==
    IF items = <<>> THEN 0 ELSE items[1].quantity + SumQuantity(Tail(items))

\* C17: getWBSData returns at most one row per item code of the selected
\* items; a row's totalCost, quantity and itemCount are the sum of totalCost,
\* the sum of quantity and the number of the selected items with the row's
\* code, and the response totalCost is the sum of totalCost over the selected
\* items.
C17_GroupedByItemCode ==
    (probe.response # Null /\ probe.response[1].error = "none") =>
        LET r == probe.response[1]
            selected == SelectedItems(probe.projectId, probe.level,
                                      probe.parentItemCode)
            WithCode(code) == SelectSeq(selected, LAMBDA x : x.itemCode = code)
        IN  /\ \A i, j \in 1..Len(r.items) :
                   r.items[i].itemCode = r.items[j].itemCode => i = j
            /\ RowCodes(r) \subseteq {selected[i].itemCode : i \in 1..Len(selected)}
            /\ \A i \in 1..Len(r.items) :
                   /\ r.items[i].totalCost = SumTotalCost(WithCode(r.items[i].itemCode))
                   /\ r.items[i].quantity = SumQuantity(WithCode(r.items[i].itemCode))
                   /\ r.items[i].itemCount = Len(WithCode(r.items[i].itemCode))
            /\ r.totalCost = SumTotalCost(selected)

\* the request names an existing project and, from level 2 on, a parent code
ValidRequest ==
    /\ status[probe.projectId] # "absent"
    /\ probe.level = 1 \/ probe.parentItemCode \notin {Null, Some(StrEmpty)}

\* C18: when nothing is left for the requested level and parent, getWBSData
\* on an existing project answers totalCost 0 and no items, without error;
\* no row it returns has an empty code or a totalCost of 0 or less.
C18_EmptyResultIsNotAnError ==
    (probe.response # Null /\ ValidRequest) =>
        LET r == probe.response[1]
            selected == SelectedItems(probe.projectId, probe.level,
                                      probe.parentItemCode)
        IN  /\ r.error = "none"
            /\ selected = <<>> => r = WBSResult("none", 0, <<>>)
            /\ r.items = <<>> => r.totalCost = 0
            /\ \A i \in 1..Len(r.items) :
                   r.items[i].itemCode # <<>> /\ r.items[i].totalCost > 0

\* a project with items, none of them under the requested parent
C18_Witness ==
    /\ probe.response = Some(WBSResult("none", 0, <<>>))
    /\ probe.level = 2
    /\ probe.parentItemCode = Some(Str2)
    /\ ItemsOf(boq, probe.projectId) # <<>>

\* C19: getWBSData changes no project's status and no stored line item, and
\* a second call with the same arguments on the same stored state returns
\* what the first returned.
C19_ReadOnlyAndDeterministic ==
    [][/\ boq' = boq
       /\ status' = status
       /\ (probe.response # Null /\ probe'.response # Null)
              => probe'.response = probe.response]_vars

\* stored rows without their storage-assigned ids
WithoutIds(rows) == [i \in 1..Len(rows) |-> [rows[i] EXCEPT !.id = 0]]

\* C20: a step of a process call for project P leaves the line items and the
\* status of every other project as they were, and whenever the latest call
\* on a project has succeeded with no other call on that project in flight
\* during it, whatever ran on other projects meanwhile, the project's stored
\* items are those the call would have written running alone (ids aside) and
\* its status is processed.
C20_ProjectsAreIndependent ==
    [][/\ \A k \in Slots :
              (Active(k) /\ proc'[k] # proc[k]) =>
                  \A q \in ProjectIds \ {proc[k].projectId} :
                      boq'[q] = boq[q] /\ status'[q] = status[q]
       /\ \A p \in ProjectIds :
              CleanOk(p)' =>
                  /\ WithoutIds(boq'[p])
                         = WithoutIds(ProcessedTable(p, last'[p].data))
                  /\ status'[p] = "processed"]_vars

\* calls for two projects both between their DELETE and their last INSERT,
\* each with a row written
C20_Witness ==
    \E j, k \in Slots :
        /\ proc[j].projectId # proc[k].projectId
        /\ proc[j].pc = "insert" /\ proc[j].i >= 2
        /\ proc[k].pc = "insert" /\ proc[k].i >= 2
        /\ boq[proc[j].projectId] # <<>>
        /\ boq[proc[k].projectId] # <<>>

-----------------------------------------------------------------------------
(* C21..C30 *)

\* the number of rows the call in slot k has inserted so far
InsertedSoFar(k) ==
    IF proc[k].pc = "insert" THEN proc[k].i - 1 ELSE Len(proc[k].items)

\* C21: while a process call runs with no other process call on the same
\* project in flight during it, once its DELETE has been issued the stored
\* items of the project are exactly the rows this call has inserted so far, in
\* the order of insertion: no row of an earlier run is stored next to a row of
\* the current run, and before the first insert the stored set is empty.
C21_OldItemsGoneBeforeNewOnes ==
    \A k \in Slots :
        (proc[k].pc \in {"insert", "update", "select"} /\ ~proc[k].ovl) =>
            LET stored == boq[proc[k].projectId]
            IN  /\ Len(stored) = InsertedSoFar(k)
                /\ \A j \in 1..Len(stored) :
                       /\ ItemFields(stored[j]) = ItemFields(proc[k].items[j])
                       /\ stored[j].cumulativeCost = proc[k].items[j].cumulativeCost
                /\ \A j \in 1..(Len(stored) - 1) : stored[j].id < stored[j + 1].id

\* a second run on a project, after a run that stored items, has inserted its
\* first item and not yet its last
C21_Witness ==
    \E k \in Slots :
        /\ proc[k].pc = "insert" /\ ~proc[k].ovl
        /\ proc[k].i = 2
        /\ last[proc[k].projectId].outcome = "ok"
        /\ Len(boq[proc[k].projectId]) = 1
        /\ boq[proc[k].projectId][1].id > 1

\* what the stored items of p can be (ids aside) after one process run that
\* had the project to itself, whatever file it read
SingleRunResults(p) == {WithoutIds(ProcessedTable(p, data)) : data \in Files}

\* the stored items of p are what no single run leaves behind
DiffersFromAnySingleRun(p) == WithoutIds(boq[p]) \notin SingleRunResults(p)

\* C22: overlapping process calls on one project are not safe, and only
\* overlap is unsafe: whenever, with no call for the project in flight, the
\* latest call has succeeded and the stored items are what no single run
\* leaves behind, that call ran while another process call for the same
\* project was in flight.  (That such a state is reached is C22_Witness.)
C22_OnlyOverlapCorrupts ==
    \A p \in ProjectIds :
        (Quiet(p) /\ last[p].outcome = "ok" /\ DiffersFromAnySingleRun(p))
            => last[p].ovl

\* two overlapping calls for one project have both completed, the delete of
\* each preceding the inserts of both: every accepted row is stored twice and
\* the stored count exceeds the totalItems the latest call returned
C22_Witness ==
    \E p \in ProjectIds :
        /\ Quiet(p) /\ last[p].outcome = "ok" /\ last[p].ovl
        /\ DiffersFromAnySingleRun(p)
        /\ Len(boq[p]) = 2 * last[p].response.totalItems
        /\ Len(boq[p]) > last[p].response.totalItems
        /\ \A i \in KeptRows(last[p].data) :
               Cardinality({j \in 1..Len(boq[p]) :
                               FromRow(boq[p][j], last[p].data, i)}) = 2

\* C24: the status of a project changes only in two ways: from no project to
\* 'uploaded' by an upload, and from 'uploaded' to 'processed' by the UPDATE
\* of a process call that has completed all its inserts; that UPDATE always
\* leaves 'processed'; so the status is 'uploaded' until then, and a
\* processed project never returns to 'uploaded'.
C24_StatusLifecycle ==
    [][\A p \in ProjectIds :
          /\ status[p] = "processed" => status'[p] = "processed"
          /\ status'[p] # status[p] =>
                \/ status[p] = "absent" /\ status'[p] = "uploaded"
                \/ /\ status[p] = "uploaded" /\ status'[p] = "processed"
                   /\ \E k \in Slots :
                         /\ proc[k].pc = "update" /\ proc[k].projectId = p
                         /\ proc[k].i = Len(proc[k].items) + 1
                         /\ proc'[k].pc = "select"
          /\ \A k \in Slots :
                (proc[k].pc = "update" /\ proc[k].projectId = p
                    /\ proc'[k].pc = "select") => status'[p] = "processed"]_vars

\* a first process call has inserted every item of a file with several items
\* and the project is still 'uploaded'
C24_Witness ==
    \E k \in Slots :
        /\ proc[k].pc = "update" /\ status[proc[k].projectId] = "uploaded"
        /\ Len(boq[proc[k].projectId]) = Len(proc[k].items)
        /\ Len(proc[k].items) > 1

\* once an item of the sequence is not critical no later item is critical
CriticalItemsFormPrefix(seq) ==
    \A i, j \in 1..Len(seq) :
        (i < j /\ seq[j].isParetoCritical) => seq[i].isParetoCritical

CriticalCount(seq) == Cardinality({i \in 1..Len(seq) : seq[i].isParetoCritical})

\* the costliest item of the sequence alone is more than 80 % of the total
LargestExceedsThreshold(seq, total) ==
    \E i \in 1..Len(seq) :
        /\ \A j \in 1..Len(seq) : seq[j].totalCost <= seq[i].totalCost
        /\ ~PctLeq(Percentage(seq[i].totalCost, total), PctOf(ParetoThreshold))

\* the items returned by a successful call that ran alone on
\* its project have their critical items first, the returned
\* paretoCriticalItems is the number of returned items flagged critical, and
\* it is 0 when the largest item alone exceeds 80 % of the total
ProcessCriticalItemsFirst ==
    \A p \in ProjectIds :
        CleanOk(p) =>
            LET r == last[p].response
            IN  /\ CriticalItemsFormPrefix(r.items)
                /\ r.paretoCriticalItems = CriticalCount(r.items)
                /\ LargestExceedsThreshold(r.items, r.totalProjectCost)
                       => r.paretoCriticalItems = 0

\* C25: in every ranked sequence returned by process or by getWBSData the
\* Pareto-critical items form a prefix, the paretoCriticalItems returned by
\* process is the number of returned items flagged critical, and that count
\* is 0 when the largest item alone exceeds 80 % of the total.
C25_CriticalItemsFirst ==
    /\ ProcessCriticalItemsFirst
    /\ EveryWBSResponse(LAMBDA r : CriticalItemsFormPrefix(r.items))

\* C26: when the latest process call on a project has succeeded, having run
\* alone on it, and nothing has been written to the project since, every
\* response of getAnalysisData reports the totalItems, the totalProjectCost
\* and the paretoCriticalItems that the process call returned.
C26_AnalysisAgreesWithProcess ==
    \A p \in ProjectIds :
        CleanOk(p) =>
            \A r \in getAnalysisData(status, boq, p) :
                /\ r.error = "none"
                /\ r.totalItems = last[p].response.totalItems
                /\ r.totalProjectCost = last[p].response.totalProjectCost
                /\ r.paretoCriticalItems = last[p].response.paretoCriticalItems

\* the response getAnalysisData gives for a project that is not processed
EmptyAnalysis == AnalysisResult("none", 0, 0, 0, <<>>)

\* C28: for a project whose status is 'uploaded' getAnalysisData returns no
\* items, totalProjectCost 0 and paretoCriticalItems 0, whatever is stored for
\* it; no response for a project that is not processed holds items; and for a
\* processed project whose latest process call succeeded running alone the
\* response holds the stored items.
C28_NothingUntilProcessed ==
    \A p \in ProjectIds :
        /\ status[p] = "uploaded" => getAnalysisData(status, boq, p) = {EmptyAnalysis}
        /\ status[p] # "processed" =>
               \A r \in getAnalysisData(status, boq, p) : r.items = <<>>
        /\ (status[p] = "processed" /\ CleanOk(p)) =>
               \A r \in getAnalysisData(status, boq, p) :
                   /\ Len(r.items) = Len(boq[p])
                   /\ RangeOf(r.items) = RangeOf(boq[p])

\* a first process call has inserted some of its items, not all, and the
\* project is still 'uploaded'
C28_Witness ==
    \E k \in Slots :
        /\ proc[k].pc = "insert" /\ proc[k].i > 1
        /\ status[proc[k].projectId] = "uploaded"
        /\ boq[proc[k].projectId] # <<>>
        /\ getAnalysisData(status, boq, proc[k].projectId) = {EmptyAnalysis}

\* a non-empty response agrees with itself: its totalCost is the sum of its
\* rows, the rows come in non-increasing totalCost, the last row stands at 100 %
SelfConsistent(r) ==
    r.items # <<>> =>
        /\ r.totalCost = SumTotalCost(r.items)
        /\ \A i \in 1..(Len(r.items) - 1) :
               r.items[i].totalCost >= r.items[i + 1].totalCost
        /\ r.items[Len(r.items)].cumulativePercentage = PctOf(100)

\* C27: in every state the steps of process calls can lead to, between a
\* DELETE and an INSERT or between two INSERTs of a call on the same project
\* included, every non-empty response of getWBSData is self-consistent.
C27_ReadsAreSelfConsistent == EveryWBSResponse(SelfConsistent)

\* a process call has inserted some of its items, not all, after deleting the
\* items of an earlier run, and getWBSData answers for the project with rows
C27_Witness ==
    \E k \in Slots :
        /\ proc[k].pc = "insert"
        /\ 1 < proc[k].i /\ proc[k].i <= Len(proc[k].items)
        /\ last[proc[k].projectId].outcome = "ok"
        /\ \E req \in Requests :
              \E r \in getWBSData(status, boq, proc[k].projectId, req.level,
                                  req.parentItemCode) : r.items # <<>>

\* C23: once a project is deleted it stays deleted, none of its line items
\* and none of its insight records is stored, and getWBSData and
\* getAnalysisData answer NotFound for it; no process call and no
\* generateInsights call that starts afterwards gets past its lookup, and a
\* call for it that ends at its start ends NotFound; and the step that
\* deletes a project leaves the status, the line items and the insight
\* records of every other project as they were.
C23_DeleteCascades ==
    [][\A p \in ProjectIds :
          /\ status'[p] = "absent" =>
                /\ boq'[p] = <<>>
                /\ insights'[p] = <<>>
                /\ getAnalysisData(status', boq', p)
                       = {AnalysisResult("NotFound", 0, 0, 0, <<>>)}
                /\ \A req \in Requests :
                       getWBSData(status', boq', p, req.level, req.parentItemCode)
                           = {WBSResult("NotFound", 0, <<>>)}
          /\ status[p] = "absent" =>
                /\ status'[p] = "absent"
                /\ \A k \in Slots :
                       (~Active(k) /\ proc'[k].pc # "idle") => proc'[k].projectId # p
                /\ (gen.pc = "idle" /\ gen'.pc # "idle") => gen'.projectId # p
                /\ (calls' = calls + 1 /\ proc' = proc /\ gen' = gen
                        /\ ended'.projectId = p)
                       => ended'.outcome = "NotFound"
          /\ (status[p] # "absent" /\ status'[p] = "absent") =>
                \A q \in ProjectIds \ {p} :
                    /\ status'[q] = status[q]
                    /\ boq'[q] = boq[q]
                    /\ insights'[q] = insights[q]]_vars

\* project 1 has been deleted while a process call for it was between two of
\* its inserts; project 2 still has its items and its insights
C23_Witness ==
    /\ status[1] = "absent" /\ boq[1] = <<>> /\ insights[1] = <<>>
    /\ status[2] = "processed" /\ boq[2] # <<>> /\ insights[2] # <<>>
    /\ \E k \in Slots : proc[k].pc = "insert" /\ proc[k].projectId = 1 /\ proc[k].i = 2

\* what the loop does after one model call and after one wait, apart from
\* when it calls again
VELoopBasics ==
    /\ ve'.modelCalls <= maxRetries
    /\ (ve.pc = "call" /\ ve' # ve) =>
           /\ ve'.modelCalls = ve.modelCalls + 1
           /\ ve'.outcome = "valid" => ve'.pc = "compute"
           /\ ve'.outcome = "error" => ve'.pc = "compute"
           /\ (ve'.outcome = "error429" /\ ve.attempt < maxRetries - 1)
                  => ve'.pc = "wait"
    /\ (ve.pc = "wait" /\ ve' # ve) =>
           /\ ve'.waits = Append(ve.waits, InitialDelay * 2 ^ Len(ve.waits))
           /\ ve'.pc = "call"
           /\ ve'.modelCalls = ve.modelCalls
    /\ ve'.pc = "done" =>
           /\ Len(ve'.alternatives) \in 1..2
           /\ \A i \in 1..Len(ve'.alternatives) :
                  ve'.alternatives[i].kind = "fallback" <=> ve'.modelAlts = <<>>

\* C29 as stated: at most 3 model calls; the loop stops at the first call
\* that yields a valid alternative; it goes on to another call only after a
\* 429 error with attempts left, and then after a wait that doubles from
\* 1000 ms; it stops on any other error; the response has 1 or 2
\* alternatives, the fallback ones exactly when the model gave no valid one.
C29_RetryOnlyAfterRateLimit ==
    [][/\ VELoopBasics
       /\ (ve.pc = "call" /\ ve'.pc \in {"call", "wait"}) =>
              /\ ve'.outcome = "error429"
              /\ ve.attempt < maxRetries - 1
              /\ ve'.pc = "wait"]_vars

\* C29 amended: as stated, except that the loop also goes on, at once and
\* with the delay unchanged, after a call that returned no valid alternative
\* while attempts are left.
C29_RetryAfterRateLimitOrNoValid ==
    [][/\ VELoopBasics
       /\ (ve.pc = "call" /\ ve'.pc \in {"call", "wait"}) =>
              \/ /\ ve'.outcome = "error429"
                 /\ ve.attempt < maxRetries - 1
                 /\ ve'.pc = "wait"
              \/ /\ ve'.outcome = "novalid"
                 /\ ve.attempt + 1 < maxRetries
                 /\ ve'.pc = "call"
                 /\ ve'.delay = ve.delay /\ ve'.waits = ve.waits
       /\ (ve.pc = "call" /\ ve' # ve /\ ve'.outcome = "novalid") =>
              ve'.pc = IF ve.attempt + 1 < maxRetries THEN "call" ELSE "compute"]_vars

\* three model calls have been made, one of them retried at once after a
\* payload without a valid alternative and one after a wait of 1000 ms, and
\* the response holds the two fallback alternatives
C29_Witness ==
    /\ ve.pc = "done" /\ ve.modelCalls = maxRetries
    /\ ve.waits = <<InitialDelay>>
    /\ Len(ve.alternatives) = 2
    /\ ve.alternatives[1].kind = "fallback"

\* the shape of the drill-down list: 1 to 3 entries, entry i of level i, the
\* first without a parent code and every later one with a non-empty one
WellFormedLevels(levels) ==
    /\ Len(levels) \in 1..MaxDrillLevel
    /\ \A i \in 1..Len(levels) : levels[i].level = i
    /\ levels[1].parentItemCode = Null
    /\ \A i \in 2..Len(levels) :
           levels[i].parentItemCode # Null /\ levels[i].parentItemCode[1] # <<>>

\* C30: wbsLevels keeps its shape; a click on an item of the chart of level
\* L < 3 leaves the first L entries followed by one entry of level L + 1 with
\* the item's code as parent, a click at level 3 leaves the list as it was,
\* and a process run that succeeds leaves the single level-1 entry.
C30_DrillDownList ==
    [][/\ WellFormedLevels(page.wbsLevels) /\ WellFormedLevels(page'.wbsLevels)
       /\ (page' # page /\ page'.clicked # Null) =>
              LET click == page'.clicked[1]
              IN  IF click.level < MaxDrillLevel
                  THEN page'.wbsLevels =
                           SubSeq(page.wbsLevels, 1, click.level)
                               \o <<[level |-> click.level + 1,
                                     parentItemCode |-> Some(click.item.itemCode),
                                     parentDescription |-> Some(click.item.description)]>>
                  ELSE page'.wbsLevels = page.wbsLevels
       /\ (page.isProcessing /\ ~page'.isProcessing
              /\ page'.toast = "Processing complete")
              => page'.wbsLevels = LevelOneOnly
       /\ (page'.wbsLevels # page.wbsLevels) =>
              \/ page'.clicked # Null
              \/ page.isProcessing /\ page'.toast = "Processing complete"]_vars

\* the list has three entries and an item of the level-3 chart has just been
\* clicked
C30_Witness ==
    /\ Len(page.wbsLevels) = MaxDrillLevel
    /\ page.clicked # Null
    /\ page.clicked[1].level = MaxDrillLevel

====
